---- MODULE Spec2Model ----
\* Model of sec_form_checker2.py: the batch run of run_app (one record per
\* input row), with the filing selection, routing and column expansion of
\* the per-row loop.
\*
\* Text values (CIK cells, accession numbers, item codes, filing dates) are
\* sequences of one-character strings, so that split, strip, replace, int()
\* and strptime are computed on the characters.  Form codes, and the fixed
\* parts of field names and links, are atomic strings.
EXTENDS Integers, Sequences, FiniteSets, TLC

\* ---------------------------------------------------------------------
\* Bounds of the model
\* ---------------------------------------------------------------------
\* Largest number of input rows of a batch (SpecBatch).
MaxRows == 3
\* Largest number of entries of one company's feed (Spec).
MaxFeed == 2

\* ---------------------------------------------------------------------
\* Python values and string methods
\* ---------------------------------------------------------------------
\* Python's None (distinct from every text: its only element is not one
\* character long).
None == <<"None">>

Whitespace == {" ", "\n", "\t"}

DigitChars == <<"0", "1", "2", "3", "4", "5", "6", "7", "8", "9">>

IsDigit(c) == \E k \in 1..10 : DigitChars[k] = c

DigitVal(c) == (CHOOSE k \in 1..10 : DigitChars[k] = c) - 1

\* str.lstrip / str.rstrip / str.strip
RECURSIVE LStrip(_)
LStrip(s) ==
    IF s # <<>> /\ Head(s) \in Whitespace THEN LStrip(Tail(s)) ELSE s

RECURSIVE RStrip(_)
RStrip(s) ==
    IF s # <<>> /\ s[Len(s)] \in Whitespace
    THEN RStrip(SubSeq(s, 1, Len(s) - 1))
    ELSE s

Strip(s) == RStrip(LStrip(s))

\* str.split(sep) for a one-character separator: a list of Len+1 pieces for
\* Len occurrences of sep; "".split(",") is [""].
RECURSIVE Split(_, _)
Split(s, sep) ==
    IF \A k \in 1..Len(s) : s[k] # sep
    THEN <<s>>
    ELSE LET p == CHOOSE k \in 1..Len(s) :
                      s[k] = sep /\ \A m \in 1..(k - 1) : s[m] # sep
         IN  <<SubSeq(s, 1, p - 1)>> \o Split(SubSeq(s, p + 1, Len(s)), sep)

\* str.replace(old, new) for a one-character old and a text new.
RECURSIVE Replace(_, _, _)
Replace(s, old, new) ==
    IF s = <<>> THEN <<>>
    ELSE (IF Head(s) = old THEN new ELSE <<Head(s)>>)
         \o Replace(Tail(s), old, new)

\* str.rjust(width, fill): left-pads, never truncates.
RECURSIVE RJust(_, _, _)
RJust(s, width, fill) ==
    IF Len(s) >= width THEN s ELSE RJust(<<fill>> \o s, width, fill)

\* [x.strip() for x in parts if x.strip()]
RECURSIVE StripNonEmpty(_)
StripNonEmpty(parts) ==
    IF parts = <<>> THEN <<>>
    ELSE (IF Strip(Head(parts)) # <<>> THEN <<Strip(Head(parts))>> ELSE <<>>)
         \o StripNonEmpty(Tail(parts))

\* x in list
InList(x, list) == \E k \in 1..Len(list) : list[k] = x

\* The texts int() accepts here: a non-empty run of decimal digits.
IsDigits(s) == s # <<>> /\ \A k \in 1..Len(s) : IsDigit(s[k])

\* int(s) of a digit text.
RECURSIVE IntOf(_)
IntOf(s) ==
    IF s = <<>> THEN 0
    ELSE 10 * IntOf(SubSeq(s, 1, Len(s) - 1)) + DigitVal(s[Len(s)])

\* str(n) / f"{n}" of a non-negative integer.
RECURSIVE StrOfInt(_)
StrOfInt(n) ==
    IF n < 10 THEN <<DigitChars[n + 1]>>
    ELSE StrOfInt(n \div 10) \o <<DigitChars[(n % 10) + 1]>>

\* ---------------------------------------------------------------------
\* Dictionaries for categories and form baselines
\* ---------------------------------------------------------------------
FILING_CATEGORIES ==
    ("Annual & Quarterly Reports" :> <<"10-K", "10-K/A", "10-Q", "10-Q/A">>)
    @@ ("Current Reports (8-K)" :> <<"8-K", "8-K/A">>)
    @@ ("Proxy Statements" :>
            <<"DEF 14A", "DEFA14A", "DFAN14A", "DEFN14A", "DEFR14A",
              "DEFM14A", "PRE 14A", "PRER14A", "PREC14A">>)
    @@ ("Ownership Forms" :>
            <<"3", "3/A", "4", "4/A", "5", "5/A",
              "SC 13D", "SC 13D/A", "SC 13G", "SC 13G/A">>)

FORM_BASE ==
    [f \in {"10-K", "10-K/A"} |-> "10-K"]
    @@ [f \in {"10-Q", "10-Q/A"} |-> "10-Q"]
    @@ [f \in {"8-K", "8-K/A"} |-> "8-K"]
    @@ [f \in {"DEF 14A", "DEFA14A", "DFAN14A", "DEFN14A", "DEFR14A",
               "DEFM14A", "PRE 14A", "PRER14A", "PREC14A"} |-> "Proxy"]
    @@ [f \in {"3", "3/A", "4", "4/A", "5", "5/A",
               "SC 13D", "SC 13D/A", "SC 13G", "SC 13G/A"} |-> "Ownership"]

\* FORM_BASE.get(form_type, form_type)
BaseForm(form_type) ==
    IF form_type \in DOMAIN FORM_BASE THEN FORM_BASE[form_type] ELSE form_type

\* f.startswith("8-K"), over the form codes of FILING_CATEGORIES.
StartsWith8K(f) == f \in {"8-K", "8-K/A"}

\* ---------------------------------------------------------------------
\* zero_pad_cik
\* ---------------------------------------------------------------------
\* int(cik) succeeds on a digit text and the value is printed with
\* f"{val:010d}"; on ValueError the text is left-padded with "0".
zero_pad_cik(cik) ==
    IF IsDigits(cik)
    THEN RJust(StrOfInt(IntOf(cik)), 10, "0")
    ELSE RJust(cik, 10, "0")

\* ---------------------------------------------------------------------
\* datetime.strptime(filing_dt_str, "%Y-%m-%d")
\* ---------------------------------------------------------------------
IsLeap(y) == (y % 4 = 0 /\ y % 100 # 0) \/ y % 400 = 0

DaysInMonth(y, m) ==
    IF m = 2 THEN (IF IsLeap(y) THEN 29 ELSE 28)
    ELSE IF m \in {4, 6, 9, 11} THEN 30
    ELSE 31

\* The text matches %Y-%m-%d (four-digit year, one- or two-digit month and
\* day) and names a calendar date; otherwise strptime raises ValueError.
StrptimeOk(s) ==
    LET parts == Split(s, "-")
    IN  /\ Len(parts) = 3
        /\ IsDigits(parts[1]) /\ Len(parts[1]) = 4
        /\ IsDigits(parts[2]) /\ Len(parts[2]) \in {1, 2}
        /\ IsDigits(parts[3]) /\ Len(parts[3]) \in {1, 2}
        /\ IntOf(parts[1]) >= 1
        /\ IntOf(parts[2]) \in 1..12
        /\ IntOf(parts[3]) >= 1
        /\ IntOf(parts[3]) <= DaysInMonth(IntOf(parts[1]), IntOf(parts[2]))

\* The datetime of a text that parses: <<year, month, day>> at midnight.
Strptime(s) ==
    LET parts == Split(s, "-")
    IN  <<IntOf(parts[1]), IntOf(parts[2]), IntOf(parts[3])>>

\* datetime a < datetime b
DateLT(a, b) ==
    \/ a[1] < b[1]
    \/ a[1] = b[1] /\ a[2] < b[2]
    \/ a[1] = b[1] /\ a[2] = b[2] /\ a[3] < b[3]

\* ---------------------------------------------------------------------
\* Link and link groups
\* ---------------------------------------------------------------------
\* The link of a filing: the CIK as a decimal number, the accession number
\* without dashes.
BuildLink(cik_padded, accno_str) ==
    <<"https://www.sec.gov/Archives/edgar/data/">>
    \o StrOfInt(IntOf(cik_padded))
    \o <<"/">> \o Replace(accno_str, "-", <<>>) \o <<"/index.html">>

\* The group named by a base form, and f"8-K({it})".
BaseKey(base_form) == <<base_form>>

ItemKey(it) == <<"8-K", "(">> \o it \o <<")">>

\* link_tracker is a defaultdict(list): here the sequence of its
\* (key, links) items in insertion order.
TrackerKeys(tracker) == {tracker[k].key : k \in 1..Len(tracker)}

\* link_tracker[col_name].append(link)
TrackerAppend(tracker, col_name, link) ==
    IF col_name \in TrackerKeys(tracker)
    THEN [k \in 1..Len(tracker) |->
            IF tracker[k].key = col_name
            THEN [key |-> col_name, links |-> Append(tracker[k].links, link)]
            ELSE tracker[k]]
    ELSE Append(tracker, [key |-> col_name, links |-> <<link>>])

\* for it in item_filter: if it in splitted_items: append to 8-K(it)
RECURSIVE RouteItems(_, _, _, _)
RouteItems(tracker, wanted, splitted_items, link) ==
    IF wanted = <<>> THEN tracker
    ELSE RouteItems(
            IF InList(Head(wanted), splitted_items)
            THEN TrackerAppend(tracker, ItemKey(Head(wanted)), link)
            ELSE tracker,
            Tail(wanted), splitted_items, link)

\* Route with a slip: an 8-K entry none of whose codes is requested falls
\* back to the bare 8-K group.
RouteFallsBack(tracker, base_form, items_str, link, wanted) ==
    IF base_form = "8-K" /\ wanted # <<>>
       /\ \E k \in 1..Len(wanted) :
             InList(wanted[k], StripNonEmpty(Split(items_str, ",")))
    THEN RouteItems(tracker, wanted,
                    StripNonEmpty(Split(items_str, ",")), link)
    ELSE TrackerAppend(tracker, BaseKey(base_form), link)

\* Step 6 of the loop over the filings: where the link of an entry goes.
Route(tracker, base_form, items_str, link, wanted) ==
    IF base_form = "8-K" /\ wanted # <<>>
    THEN RouteItems(tracker, wanted,
                    StripNonEmpty(Split(items_str, ",")), link)
    ELSE TrackerAppend(tracker, BaseKey(base_form), link)

\* ---------------------------------------------------------------------
\* The result record
\* ---------------------------------------------------------------------
\* A record (a Python dict) is a function from field names to values.
\* result[name] = value
SetField(result, name, value) ==
    [n \in (DOMAIN result) \cup {name} |->
        IF n = name THEN value ELSE result[n]]

\* FieldName with a slip: the continuation fields are numbered from 1.
FieldNameFromOne(col_name, j) ==
    IF j = 1 THEN col_name ELSE col_name \o <<"_">> \o StrOfInt(j - 1)

\* The name of the j-th field of a group: col_name, then f"{col_name}_{j}".
FieldName(col_name, j) ==
    IF j = 1 THEN col_name ELSE col_name \o <<"_">> \o StrOfInt(j)

\* result[col_name] = link_list[0]; result[f"{col_name}_{j}"] = lnk
RECURSIVE ExpandGroup(_, _, _, _)
ExpandGroup(result, col_name, link_list, j) ==
    IF j > Len(link_list) THEN result
    ELSE ExpandGroup(SetField(result, FieldName(col_name, j), link_list[j]),
                     col_name, link_list, j + 1)

\* for col_name, link_list in link_tracker.items(): ...
RECURSIVE ExpandTracker(_, _)
ExpandTracker(result, tracker) ==
    IF tracker = <<>> THEN result
    ELSE ExpandTracker(
            ExpandGroup(result, Head(tracker).key, Head(tracker).links, 1),
            Tail(tracker))

IdentityFields ==
    {<<"Issuer ID">>, <<"CIK">>, <<"Company Name">>, <<"FilingAvailable">>}

\* InitialResult with a slip: the record starts as "Error".
InitialResultError(issuer_id, cik_raw, company_name) ==
    (<<"Issuer ID">> :> issuer_id)
    @@ (<<"CIK">> :> cik_raw)
    @@ (<<"Company Name">> :> company_name)
    @@ (<<"FilingAvailable">> :> <<"Error">>)

\* The record a row starts with.
InitialResult(issuer_id, cik_raw, company_name) ==
    (<<"Issuer ID">> :> issuer_id)
    @@ (<<"CIK">> :> cik_raw)
    @@ (<<"Company Name">> :> company_name)
    @@ (<<"FilingAvailable">> :> <<"No">>)

\* FinalResult with a slip: "Yes" is set without looking at link_tracker.
FinalResultAlwaysYes(result, tracker) ==
    ExpandTracker(SetField(result, <<"FilingAvailable">>, <<"Yes">>), tracker)

\* if link_tracker: FilingAvailable = "Yes" and the groups are expanded.
FinalResult(result, tracker) ==
    IF tracker # <<>>
    THEN ExpandTracker(SetField(result, <<"FilingAvailable">>, <<"Yes">>),
                       tracker)
    ELSE result

\* ---------------------------------------------------------------------
\* State
\* ---------------------------------------------------------------------
VARIABLES
    input_mode,       \* the radio choice: how the CIKs are provided
    uploaded_file,    \* the uploaded Excel file: present, readable, its rows
    manual_ciks_str,  \* the text of the manual CIK text area
    category_choice,  \* the selected filing category
    start_date_val,   \* None or the start date <<year, month, day>>
    end_date_val,     \* None or the end date <<year, month, day>>
    items_input,      \* the text of the 8-K items input
    sec_source,       \* what data.sec.gov answers to the request of row k
    pc,               \* "idle", "loop", "done", "stopped" or "raised"
    df,               \* the rows being processed (functions column -> cell)
    idx,              \* the position of the loop over the rows
    results,          \* the list of result records
    link_tracker,     \* the link groups of the row processed last
    requests          \* the padded CIKs requested from data.sec.gov so far

vars ==
    <<input_mode, uploaded_file, manual_ciks_str, category_choice,
      start_date_val, end_date_val, items_input, sec_source,
      pc, df, idx, results, link_tracker, requests>>

inputs ==
    <<input_mode, uploaded_file, manual_ciks_str, category_choice,
      start_date_val, end_date_val, items_input, sec_source>>

\* ---------------------------------------------------------------------
\* Values computed from the widgets before the Run button is handled
\* ---------------------------------------------------------------------
forms_we_want == FILING_CATEGORIES[category_choice]

\* The 8-K items are asked for only when the category has an 8-K form.
item_filter ==
    IF (\E k \in 1..Len(forms_we_want) : StartsWith8K(forms_we_want[k]))
       /\ items_input # <<>>
    THEN StripNonEmpty(Split(items_input, ","))
    ELSE <<>>

\* The manually entered CIKs, separated by commas or line breaks.
manual_ciks ==
    IF manual_ciks_str # <<>>
    THEN StripNonEmpty(Split(Replace(manual_ciks_str, "\n", <<",">>), ","))
    ELSE <<>>

\* pd.DataFrame({"CIK": manual_ciks, "Company Name": ["Unknown"] * n, ...})
ManualFrame ==
    [k \in 1..Len(manual_ciks) |->
        ("CIK" :> manual_ciks[k])
        @@ ("Company Name" :> <<"Unknown">>)
        @@ ("Issuer id" :> <<"Unknown">>)
        @@ ("Analyst name" :> <<"Unknown">>)]

\* row.get(column, default)
RowGet(row, column, default) ==
    IF column \in DOMAIN row THEN row[column] ELSE default

\* not cik_raw
NoCik(cik_raw) == cik_raw = None \/ cik_raw = <<>>

\* ---------------------------------------------------------------------
\* fetch_sec_json and the check of the answer
\* ---------------------------------------------------------------------
\* None when requests.get raises or the status is not 200, else the JSON.
fetch_sec_json(resp) ==
    IF ~resp.raises /\ resp.status_code = 200
    THEN [isNone |-> FALSE, json |-> resp.json]
    ELSE [isNone |-> TRUE, json |-> resp.json]

\* not sec_data or "filings" not in sec_data
\*              or "recent" not in sec_data["filings"]
NoRecent(sec_data) ==
    sec_data.isNone \/ ~sec_data.json.filings \/ ~sec_data.json.recent

\* ---------------------------------------------------------------------
\* The loop over the recent filings of one company
\* ---------------------------------------------------------------------
\* link_tracker = defaultdict(list)
NewLinkTracker == <<>>

\* BeforeStart with a slip: a filing of the start date itself is excluded.
BeforeStartExclusive(fdate) ==
    start_date_val # None /\ ~DateLT(start_date_val, fdate)

\* start_date_val and fdate < start_date_val
BeforeStart(fdate) == start_date_val # None /\ DateLT(fdate, start_date_val)

\* AfterEnd with a slip: an absent end date excludes every filing.
AfterEndUnset(fdate) ==
    end_date_val = None \/ DateLT(end_date_val, fdate)

\* end_date_val and fdate > end_date_val
AfterEnd(fdate) == end_date_val # None /\ DateLT(end_date_val, fdate)

\* Iterations i, i+1, ... of the loop, from the groups collected so far.
\* raised: an exception left the loop (IndexError of date_list[i] or
\* accno_list[i], ValueError of int(cik_padded)).
RECURSIVE ScanFilings(_, _, _, _)
ScanFilings(recent, cik_padded, i, tracker) ==
    IF i > Len(recent.form)
    THEN [raised |-> FALSE, link_tracker |-> tracker]
    ELSE IF i > Len(recent.filingDate) \/ i > Len(recent.accessionNumber)
    THEN [raised |-> TRUE, link_tracker |-> tracker]
    ELSE
      LET form_type == recent.form[i]
          filing_dt_str == recent.filingDate[i]
          accno_str == recent.accessionNumber[i]
          items_str == IF i <= Len(recent.items) THEN recent.items[i] ELSE <<>>
      IN  IF ~InList(form_type, forms_we_want)
          THEN ScanFilings(recent, cik_padded, i + 1, tracker)
          ELSE IF ~StrptimeOk(filing_dt_str)
          THEN ScanFilings(recent, cik_padded, i + 1, tracker)
          ELSE IF BeforeStart(Strptime(filing_dt_str))
          THEN ScanFilings(recent, cik_padded, i + 1, tracker)
          ELSE IF AfterEnd(Strptime(filing_dt_str))
          THEN ScanFilings(recent, cik_padded, i + 1, tracker)
          ELSE IF ~IsDigits(cik_padded)
          THEN [raised |-> TRUE, link_tracker |-> tracker]
          ELSE ScanFilings(recent, cik_padded, i + 1,
                           Route(tracker, BaseForm(form_type), items_str,
                                 BuildLink(cik_padded, accno_str),
                                 item_filter))

\* ---------------------------------------------------------------------
\* Handling of the Run button
\* ---------------------------------------------------------------------
\* "Please upload an Excel file before running."
RunNoFile ==
    /\ pc = "idle"
    /\ input_mode = "Upload Excel with CIKs"
    /\ ~uploaded_file.present
    /\ pc' = "stopped"
    /\ UNCHANGED <<inputs, df, idx, results, link_tracker, requests>>

\* "Error reading Excel file"
RunReadError ==
    /\ pc = "idle"
    /\ input_mode = "Upload Excel with CIKs"
    /\ uploaded_file.present
    /\ ~uploaded_file.readable
    /\ pc' = "stopped"
    /\ UNCHANGED <<inputs, df, idx, results, link_tracker, requests>>

\* The frame read from the file or made of the manual CIKs.
LoadedFrame ==
    IF input_mode = "Upload Excel with CIKs"
    THEN uploaded_file.rows
    ELSE ManualFrame

CanLoad ==
    input_mode = "Upload Excel with CIKs"
        => uploaded_file.present /\ uploaded_file.readable

\* "No data to process."
RunNoData ==
    /\ pc = "idle"
    /\ CanLoad
    /\ LoadedFrame = <<>>
    /\ df' = LoadedFrame
    /\ pc' = "stopped"
    /\ UNCHANGED <<inputs, idx, results, link_tracker, requests>>

\* The loop over the rows starts with results = [].
RunStart ==
    /\ pc = "idle"
    /\ CanLoad
    /\ LoadedFrame # <<>>
    /\ df' = LoadedFrame
    /\ results' = <<>>
    /\ idx' = 1
    /\ pc' = "loop"
    /\ UNCHANGED <<inputs, link_tracker, requests>>

\* ---------------------------------------------------------------------
\* One iteration of the loop over the rows
\* ---------------------------------------------------------------------
cik_raw == RowGet(df[idx], "CIK", None)

result ==
    InitialResult(RowGet(df[idx], "Issuer id", <<"Unknown">>),
                  cik_raw,
                  RowGet(df[idx], "Company Name", <<"Unknown">>))

cik_padded == zero_pad_cik(cik_raw)

sec_data == fetch_sec_json(sec_source[idx])

\* The row has no CIK: its record is appended as it is.
RowNoCik ==
    /\ pc = "loop"
    /\ idx <= Len(df)
    /\ NoCik(cik_raw)
    /\ results' = Append(results, result)
    /\ idx' = idx + 1
    /\ UNCHANGED <<inputs, pc, df, link_tracker, requests>>

\* The fetch gave nothing usable: the record is appended as it is.
RowNoFilings ==
    /\ pc = "loop"
    /\ idx <= Len(df)
    /\ ~NoCik(cik_raw)
    /\ requests' = Append(requests, cik_padded)
    /\ NoRecent(sec_data)
    /\ results' = Append(results, result)
    /\ idx' = idx + 1
    /\ UNCHANGED <<inputs, pc, df, link_tracker>>

\* The recent filings are scanned and the record is completed.
RowFilings ==
    /\ pc = "loop"
    /\ idx <= Len(df)
    /\ ~NoCik(cik_raw)
    /\ requests' = Append(requests, cik_padded)
    /\ ~NoRecent(sec_data)
    /\ LET scan == ScanFilings(sec_data.json, cik_padded, 1, NewLinkTracker)
       IN  /\ ~scan.raised
           /\ link_tracker' = scan.link_tracker
           /\ results' = Append(results, FinalResult(result, scan.link_tracker))
    /\ idx' = idx + 1
    /\ UNCHANGED <<inputs, pc, df>>

\* An exception leaves the loop over the filings, and run_app with it.
RowRaises ==
    /\ pc = "loop"
    /\ idx <= Len(df)
    /\ ~NoCik(cik_raw)
    /\ requests' = Append(requests, cik_padded)
    /\ ~NoRecent(sec_data)
    /\ LET scan == ScanFilings(sec_data.json, cik_padded, 1, NewLinkTracker)
       IN  /\ scan.raised
           /\ link_tracker' = scan.link_tracker
    /\ pc' = "raised"
    /\ UNCHANGED <<inputs, df, idx, results>>

\* The rows are exhausted: the results are written and offered.
Finish ==
    /\ pc = "loop"
    /\ idx > Len(df)
    /\ pc' = "done"
    /\ UNCHANGED <<inputs, df, idx, results, link_tracker, requests>>

Next ==
    \/ RunNoFile
    \/ RunReadError
    \/ RunNoData
    \/ RunStart
    \/ RowNoCik
    \/ RowNoFilings
    \/ RowFilings
    \/ RowRaises
    \/ Finish

\* ---------------------------------------------------------------------
\* Inputs of a run
\* ---------------------------------------------------------------------
\* f"{y:04d}-{m:02d}-{d:02d}": the ISO text of the feed's filingDate.
IsoText(y, m, d) ==
    RJust(StrOfInt(y), 4, "0") \o <<"-">> \o RJust(StrOfInt(m), 2, "0")
    \o <<"-">> \o RJust(StrOfInt(d), 2, "0")

\* CIK cells: a registrant number, the text of an empty Excel cell (NaN),
\* and a cell that is false in a condition ("" or 0).
CikCells == {<<"3", "2", "0", "1", "9", "3">>, <<"n", "a", "n">>, <<>>}

\* Entries of the feed: form, filingDate, accessionNumber, items.
FeedEntries ==
    { [form |-> "8-K", filingDate |-> IsoText(2024, 1, 1),
       accessionNumber |-> <<"1", "-", "2", "4", "-", "1">>,
       items |-> <<"a", ",", "b">>],
      [form |-> "8-K/A", filingDate |-> IsoText(2024, 12, 31),
       accessionNumber |-> <<"1", "-", "2", "4", "-", "2">>,
       items |-> <<" ", "b", " ", ",", " ", "a">>],
      [form |-> "8-K", filingDate |-> IsoText(2024, 6, 15),
       accessionNumber |-> <<"1", "-", "2", "4", "-", "3">>,
       items |-> <<"c">>],
      [form |-> "8-K", filingDate |-> <<"N", "/", "A">>,
       accessionNumber |-> <<"1", "-", "2", "4", "-", "1">>,
       items |-> <<"a">>],
      [form |-> "10-K", filingDate |-> IsoText(2023, 12, 31),
       accessionNumber |-> <<"1", "-", "2", "4", "-", "1">>,
       items |-> <<>>],
      [form |-> "10-K/A", filingDate |-> IsoText(2025, 1, 1),
       accessionNumber |-> <<"1", "-", "2", "4", "-", "2">>,
       items |-> <<>>],
      [form |-> "10-K", filingDate |-> IsoText(2024, 1, 1),
       accessionNumber |-> <<"1", "-", "2", "4", "-", "3">>,
       items |-> <<>>],
      [form |-> "10-Q", filingDate |-> IsoText(2024, 2, 30),
       accessionNumber |-> <<"1", "-", "2", "4", "-", "2">>,
       items |-> <<>>] }

\* sec_data["filings"]["recent"] with the four parallel arrays of the
\* entries, cut to nd dates, na accession numbers and ni items (a key that
\* is absent reads as the empty list).
Recent(entries, nd, na, ni) ==
    [filings |-> TRUE, recent |-> TRUE,
     form |-> [k \in 1..Len(entries) |-> entries[k].form],
     filingDate |-> [k \in 1..nd |-> entries[k].filingDate],
     accessionNumber |-> [k \in 1..na |-> entries[k].accessionNumber],
     items |-> [k \in 1..ni |-> entries[k].items]]

NoJson ==
    [filings |-> FALSE, recent |-> FALSE, form |-> <<>>, filingDate |-> <<>>,
     accessionNumber |-> <<>>, items |-> <<>>]

\* requests.get raises; a 404; JSON without "filings"; JSON whose "filings"
\* has no "recent".
FailedResponses ==
    { [raises |-> TRUE, status_code |-> 0, json |-> NoJson],
      [raises |-> FALSE, status_code |-> 404, json |-> NoJson],
      [raises |-> FALSE, status_code |-> 200, json |-> NoJson],
      [raises |-> FALSE, status_code |-> 200,
       json |-> [NoJson EXCEPT !.filings = TRUE]] }

Answer(json) == [raises |-> FALSE, status_code |-> 200, json |-> json]

\* Feeds of up to MaxFeed entries: aligned, with the items array one short,
\* and with the filingDate array one short.
FeedResponses ==
    UNION { { Answer(Recent(es, n, n, n)) : es \in [1..n -> FeedEntries] }
            \cup { Answer(Recent(es, n, n, n - 1)) :
                     es \in [1..n -> FeedEntries] }
            \cup { Answer(Recent(es, n - 1, n, n)) :
                     es \in [1..n -> FeedEntries] }
            : n \in 1..MaxFeed }
    \cup { Answer(Recent(<<>>, 0, 0, 0)) }

\* The answers of the batch runs: failures, a feed of two annual reports,
\* a feed without filingDate, a feed without accessionNumber.
BatchResponses ==
    FailedResponses
    \cup { Answer(Recent(es, nd, na, 0)) :
             es \in { <<[form |-> "10-K", filingDate |-> IsoText(2024, 1, 1),
                         accessionNumber |-> <<"1", "-", "1">>, items |-> <<>>],
                        [form |-> "10-K/A", filingDate |-> IsoText(2024, 3, 5),
                         accessionNumber |-> <<"1", "-", "2">>, items |-> <<>>]>> },
             nd \in {0, 2}, na \in {0, 2} }

DateWindows ==
    { <<None, None>>,
      <<<<2024, 1, 1>>, <<2024, 12, 31>>>>,
      <<<<2024, 1, 1>>, None>>,
      <<None, <<2024, 12, 31>>>>,
      <<<<2024, 6, 15>>, <<2024, 6, 15>>>> }

\* Texts of the 8-K items input: none, one code, a code given twice, two
\* codes with a blank.
ItemTexts ==
    { <<>>, <<"a">>, <<"a", ",", "a">>, <<"a", ",", " ", "b">> }

\* Texts of the manual CIK area.
ManualTexts ==
    { <<>>, <<" ", ",", "\n">>, <<"7">>,
      <<"7", ",", " ", "x", "\n", "\n", "9">> }

\* An uploaded file: absent, unreadable, or a table of rows.
NoFile == [present |-> FALSE, readable |-> FALSE, rows |-> <<>>]

BadFile == [present |-> TRUE, readable |-> FALSE, rows |-> <<>>]

\* Tables of 0..n rows with a CIK column.
CikTables(n) ==
    UNION { { [present |-> TRUE, readable |-> TRUE,
               rows |-> [k \in 1..m |-> ("CIK" :> cells[k])]] :
                cells \in [1..m -> CikCells] } : m \in 0..n }

\* Tables of 1..n rows without a CIK column.
OtherTables(n) ==
    { [present |-> TRUE, readable |-> TRUE,
       rows |-> [k \in 1..m |-> ("Company Name" :> <<"A">>)]] : m \in 1..n }

\* The answers data.sec.gov may give to the rows of a frame.  A row that is
\* not requested has no answer to vary, and a request whose padded CIK is
\* not a number finds no submissions file: only a number gets a feed.
NotFound == [raises |-> FALSE, status_code |-> 404, json |-> NoJson]

SourcesFor(frame, answers) ==
    { f \in [1..Len(frame) -> answers] :
        \A k \in 1..Len(frame) :
            LET cell == RowGet(frame[k], "CIK", None)
            IN  /\ NoCik(cell) => f[k] = NotFound
                /\ ~NoCik(cell) /\ ~IsDigits(zero_pad_cik(cell))
                      => f[k] \in FailedResponses }

InitRun ==
    /\ pc = "idle"
    /\ df = <<>>
    /\ idx = 1
    /\ results = <<>>
    /\ link_tracker = <<>>
    /\ requests = <<>>

\* One company: every feed, every date window, every item text.
Init ==
    /\ \/ /\ input_mode = "Upload Excel with CIKs"
          /\ uploaded_file \in {NoFile, BadFile} \cup CikTables(1)
          /\ manual_ciks_str = <<>>
       \/ /\ input_mode = "Manually enter CIKs"
          /\ uploaded_file = NoFile
          /\ manual_ciks_str = <<>>
    /\ category_choice \in {"Annual & Quarterly Reports", "Current Reports (8-K)"}
    /\ \E w \in DateWindows : start_date_val = w[1] /\ end_date_val = w[2]
    /\ items_input \in (IF category_choice = "Current Reports (8-K)"
                        THEN ItemTexts ELSE {<<>>})
    /\ sec_source \in SourcesFor(LoadedFrame, FailedResponses \cup FeedResponses)
    /\ InitRun

Spec == Init /\ [][Next]_vars

\* Batches of up to MaxRows companies, uploaded or typed.
InitBatch ==
    /\ \/ /\ input_mode = "Upload Excel with CIKs"
          /\ uploaded_file \in
                {NoFile, BadFile} \cup CikTables(MaxRows) \cup OtherTables(MaxRows)
          /\ manual_ciks_str = <<>>
       \/ /\ input_mode = "Manually enter CIKs"
          /\ uploaded_file = NoFile
          /\ manual_ciks_str \in ManualTexts
    /\ category_choice = "Annual & Quarterly Reports"
    /\ \E w \in {<<None, None>>, <<<<2024, 2, 1>>, None>>} :
          start_date_val = w[1] /\ end_date_val = w[2]
    /\ items_input = <<>>
    /\ sec_source \in SourcesFor(LoadedFrame, BatchResponses)
    /\ InitRun

SpecBatch == InitBatch /\ [][Next]_vars

\* ---------------------------------------------------------------------
\* Vocabulary of the properties
\* ---------------------------------------------------------------------
Range(list) == {list[k] : k \in 1..Len(list)}

\* The CIK cell of row k and the feed answered to it.
CellOf(k) == RowGet(df[k], "CIK", None)

FeedOf(k) == sec_source[k].json

\* Row k was requested and its answer had filings.recent.
Scanned(k) ==
    /\ ~NoCik(CellOf(k))
    /\ ~sec_source[k].raises
    /\ sec_source[k].status_code = 200
    /\ FeedOf(k).filings
    /\ FeedOf(k).recent

\* Row k was requested and the fetch failed or lacked filings.recent.
FetchUnusable(k) == ~NoCik(CellOf(k)) /\ ~Scanned(k)

\* The scan of row k raises.
RaisesAt(k) ==
    Scanned(k)
    /\ ScanFilings(FeedOf(k), zero_pad_cik(CellOf(k)), 1, <<>>).raised

\* The link fields of a record.
LinkFields(rec) == (DOMAIN rec) \ IdentityFields

\* The last row handled was scanned to its end: link_tracker holds its
\* groups and the last record is its record.
LastScanned ==
    /\ pc \in {"loop", "done"}
    /\ Len(results) >= 1
    /\ Scanned(Len(results))

LastFeed == FeedOf(Len(results))

LastRecord == results[Len(results)]

\* The link of entry i of the last feed.
LinkOf(i) ==
    BuildLink(zero_pad_cik(CellOf(Len(results))), LastFeed.accessionNumber[i])

\* The item codes of entry i: comma-split, trimmed, empty ones dropped;
\* none when the items array is short.
CodesOf(i) ==
    IF i <= Len(LastFeed.items)
    THEN { Strip(c) : c \in Range(Split(LastFeed.items[i], ",")) } \ {<<>>}
    ELSE {}

\* Days are ordered as their numbers year*372 + month*31 + day are.
DayNumber(d) == d[1] * 372 + d[2] * 31 + d[3]

\* The filing date of entry i is a calendar date within the window, both
\* bounds included.
InWindow(i) ==
    /\ StrptimeOk(LastFeed.filingDate[i])
    /\ start_date_val # None
          => DayNumber(start_date_val)
                <= DayNumber(Strptime(LastFeed.filingDate[i]))
    /\ end_date_val # None
          => DayNumber(Strptime(LastFeed.filingDate[i]))
                <= DayNumber(end_date_val)

SelectedForm(i) == LastFeed.form[i] \in Range(forms_we_want)

\* The groups entry i is to be placed in, once it passed the form and
\* date filters.
TargetKeys(i) ==
    IF BaseForm(LastFeed.form[i]) = "8-K" /\ item_filter # <<>>
    THEN { <<"8-K", "(">> \o c \o <<")">> :
             c \in Range(item_filter) \cap CodesOf(i) }
    ELSE { <<BaseForm(LastFeed.form[i])>> }

Entries == 1..Len(LastFeed.form)

\* The links of the group key of link_tracker (none if there is no group).
GroupLinks(key) ==
    UNION { Range(link_tracker[g].links) :
              g \in {h \in 1..Len(link_tracker) : link_tracker[h].key = key} }

AllLinks == UNION { Range(link_tracker[g].links) : g \in 1..Len(link_tracker) }

RECURSIVE TotalLinks(_)
TotalLinks(tracker) ==
    IF tracker = <<>> THEN 0
    ELSE Len(Head(tracker).links) + TotalLinks(Tail(tracker))

\* ---------------------------------------------------------------------
\* Properties
\* ---------------------------------------------------------------------

\* C1: every batch whose loop started ends with one record per input row,
\* the k-th record carrying the CIK of the k-th row; no row ends the loop
\* early.  (Violated: a feed whose filingDate or accessionNumber array is
\* shorter than form raises IndexError out of run_app.)
C1_OneRecordPerRow ==
    pc \in {"done", "raised"}
        => /\ pc = "done"
           /\ Len(results) = Len(df)
           /\ \A k \in 1..Len(df) : results[k][<<"CIK">>] = CellOf(k)

\* C2 as stated: the record of a row whose fetch failed or whose answer
\* lacks filings.recent has availability "Error" and no link fields.
C2_AvailabilityError ==
    \A k \in 1..Len(results) :
        FetchUnusable(k)
            => /\ results[k][<<"FilingAvailable">>] = <<"Error">>
               /\ LinkFields(results[k]) = {}

\* C2 amended: the record of a row whose fetch failed or whose answer
\* lacks filings.recent has availability "No" and no link fields, and the
\* loop has moved on to the next row without stopping the run.
C2_AvailabilityNo ==
    \A k \in 1..Len(results) :
        FetchUnusable(k)
            => /\ results[k][<<"FilingAvailable">>] = <<"No">>
               /\ LinkFields(results[k]) = {}
               /\ results[k][<<"CIK">>] = CellOf(k)
               /\ idx > k
               /\ pc # "stopped"

\* A failed fetch on a row, and a later row handled after it.
C2_Witness ==
    \E k \in 1..Len(results) : FetchUnusable(k) /\ Len(results) > k

\* C3: a frame without a CIK column ends the run before any row is
\* handled (no request, no record); a row without a CIK value does not.
C3_MissingColumnFatal ==
    /\ (pc # "idle" /\ df # <<>> /\ "CIK" \notin DOMAIN df[1])
          => pc = "stopped" /\ results = <<>> /\ requests = <<>>
    /\ \A k \in 1..Len(results) :
          NoCik(CellOf(k)) => idx > k /\ pc # "stopped"

\* C4: when the run has ended, the record of every row whose own scan does
\* not raise is present and is the record made of that row, its own answer
\* and the criteria alone.
C4_Isolation ==
    pc \in {"done", "raised"}
        => \A k \in 1..Len(df) :
              ~RaisesAt(k)
                  => /\ k <= Len(results)
                     /\ results[k] =
                          (IF Scanned(k)
                           THEN FinalResult(
                                  InitialResult(
                                     RowGet(df[k], "Issuer id", <<"Unknown">>),
                                     CellOf(k),
                                     RowGet(df[k], "Company Name", <<"Unknown">>)),
                                  ScanFilings(FeedOf(k), zero_pad_cik(CellOf(k)),
                                              1, <<>>).link_tracker)
                           ELSE InitialResult(
                                  RowGet(df[k], "Issuer id", <<"Unknown">>),
                                  CellOf(k),
                                  RowGet(df[k], "Company Name", <<"Unknown">>)))

\* C5: in the record of a scanned row, FilingAvailable is "Yes" exactly
\* when some entry was routed into a group, which is exactly when the
\* record has a link field; otherwise it is "No".
C5_AvailableIffRouted ==
    LastScanned
        => LET routed == \E i \in Entries :
                            SelectedForm(i) /\ InWindow(i) /\ TargetKeys(i) # {}
           IN  /\ LastRecord[<<"FilingAvailable">>] \in {<<"Yes">>, <<"No">>}
               /\ LastRecord[<<"FilingAvailable">>] = <<"Yes">> <=> routed
               /\ LinkFields(LastRecord) # {} <=> routed

\* The item filter is active, an 8-K entry is inside the window, none of
\* its codes is requested: the record says "No".
C5_Witness ==
    /\ LastScanned
    /\ pc = "done"
    /\ item_filter # <<>>
    /\ \E i \in Entries :
          SelectedForm(i) /\ InWindow(i) /\ CodesOf(i) # {} /\ TargetKeys(i) = {}
    /\ LastRecord[<<"FilingAvailable">>] = <<"No">>

\* The links entry i gives to the group key, in the order of item_filter.
Contribution(i, key) ==
    IF SelectedForm(i) /\ InWindow(i)
    THEN IF BaseForm(LastFeed.form[i]) = "8-K" /\ item_filter # <<>>
         THEN [n \in 1..Cardinality(
                   {m \in 1..Len(item_filter) :
                       /\ item_filter[m] \in CodesOf(i)
                       /\ <<"8-K", "(">> \o item_filter[m] \o <<")">> = key})
                 |-> LinkOf(i)]
         ELSE IF key = <<BaseForm(LastFeed.form[i])>> THEN <<LinkOf(i)>> ELSE <<>>
    ELSE <<>>

\* The links of the group key in the order of the feed, from entry i on.
RECURSIVE InFeedOrder(_, _)
InFeedOrder(key, i) ==
    IF i > Len(LastFeed.form) THEN <<>>
    ELSE Contribution(i, key) \o InFeedOrder(key, i + 1)

\* C6: every group of k >= 1 links u_1..u_k, in the order of the feed, is
\* in the record as field GroupKey = u_1 and GroupKey_j = u_j for j in
\* 2..k, and the record has as many link fields as links were routed.
C6_ColumnExpansion ==
    LastScanned
        => /\ \A g \in 1..Len(link_tracker) :
                LET key == link_tracker[g].key
                    links == link_tracker[g].links
                IN  /\ Len(links) >= 1
                    /\ links = InFeedOrder(key, 1)
                    /\ key \in DOMAIN LastRecord
                    /\ LastRecord[key] = links[1]
                    /\ \A j \in 2..Len(links) :
                          /\ (key \o <<"_">> \o StrOfInt(j)) \in DOMAIN LastRecord
                          /\ LastRecord[key \o <<"_">> \o StrOfInt(j)] = links[j]
           /\ Cardinality(LinkFields(LastRecord)) = TotalLinks(link_tracker)

\* Two groups, one of them with two links.
C6_Witness ==
    /\ LastScanned
    /\ pc = "done"
    /\ Len(link_tracker) >= 2
    /\ \E g \in 1..Len(link_tracker) :
          /\ Len(link_tracker[g].links) >= 2
          /\ link_tracker[g].links[1] # link_tracker[g].links[2]

\* The keys a link could be placed under.
CandidateKeys ==
    TrackerKeys(link_tracker)
    \cup { <<b>> : b \in {"8-K", "10-K", "10-Q", "Proxy", "Ownership"} }
    \cup { <<LastFeed.form[i]>> : i \in Entries }
    \cup { <<"8-K", "(">> \o c \o <<")">> :
             c \in Range(item_filter) \cup UNION {CodesOf(i) : i \in Entries} }

\* C7: an 8-K entry that passed the filters, with item codes requested, is
\* in group 8-K(c) for exactly the requested codes c among its own codes
\* and never in the bare 8-K group; any other entry that passed is in the
\* group of its base label only.
C7_SubItemRouting ==
    LastScanned
        => \A key \in CandidateKeys :
              GroupLinks(key) =
                 { LinkOf(i) : i \in {e \in Entries :
                                        /\ SelectedForm(e)
                                        /\ InWindow(e)
                                        /\ key \in TargetKeys(e)} }

\* An 8-K entry placed in the groups of two requested codes, and another
\* placed in none.
C7_Witness ==
    /\ LastScanned
    /\ pc = "done"
    /\ \E i \in Entries :
          /\ SelectedForm(i) /\ InWindow(i)
          /\ Cardinality(TargetKeys(i)) = 2
          /\ \A key \in TargetKeys(i) : LinkOf(i) \in GroupLinks(key)
    /\ \E i \in Entries :
          /\ SelectedForm(i) /\ InWindow(i)
          /\ item_filter # <<>>
          /\ TargetKeys(i) = {}
          /\ LinkOf(i) \notin AllLinks

\* C8: an entry of a selected form gives a link only if its filing date is
\* a calendar date d with start <= d and d <= end for the bounds that are
\* set, both included, and every such entry (with a group to go to) gives
\* its link; an unparsable date raises nothing: the scan of a row raises
\* only on a filingDate or accessionNumber array shorter than form, or on
\* a padded CIK that is no number.
C8_DateWindow ==
    /\ LastScanned
          => AllLinks =
                { LinkOf(i) : i \in {e \in Entries :
                                       /\ SelectedForm(e)
                                       /\ InWindow(e)
                                       /\ TargetKeys(e) # {}} }
    /\ pc = "raised"
          => \/ Len(FeedOf(idx).filingDate) < Len(FeedOf(idx).form)
             \/ Len(FeedOf(idx).accessionNumber) < Len(FeedOf(idx).form)
             \/ ~IsDigits(zero_pad_cik(CellOf(idx)))

\* Both bounds set, an entry filed on the start date and an entry filed on
\* the end date, both linked; and an entry with an unparsable date, left out.
C8_Witness ==
    /\ LastScanned
    /\ pc = "done"
    /\ start_date_val # None
    /\ end_date_val # None
    /\ start_date_val # end_date_val
    /\ \E i \in Entries :
          /\ StrptimeOk(LastFeed.filingDate[i])
          /\ Strptime(LastFeed.filingDate[i]) = start_date_val
          /\ LinkOf(i) \in AllLinks
    /\ \E i \in Entries :
          /\ StrptimeOk(LastFeed.filingDate[i])
          /\ Strptime(LastFeed.filingDate[i]) = end_date_val
          /\ LinkOf(i) \in AllLinks

\* C9 as stated: with both bounds absent, every entry of a selected form is
\* placed in its groups, whatever its filing date text is.
C9_AllEntriesPass ==
    (LastScanned /\ start_date_val = None /\ end_date_val = None)
        => \A i \in Entries :
              SelectedForm(i)
                  => \A key \in TargetKeys(i) : LinkOf(i) \in GroupLinks(key)

\* C9 amended: with both bounds absent, every entry of a selected form
\* whose filing date parses as a calendar date is placed in its groups.
C9_AllParsedEntriesPass ==
    (LastScanned /\ start_date_val = None /\ end_date_val = None)
        => \A i \in Entries :
              (SelectedForm(i) /\ StrptimeOk(LastFeed.filingDate[i]))
                  => \A key \in TargetKeys(i) : LinkOf(i) \in GroupLinks(key)

\* No bounds; entries of 2023 and of 2025 are both linked.
C9_Witness ==
    /\ LastScanned
    /\ pc = "done"
    /\ start_date_val = None
    /\ end_date_val = None
    /\ \E i \in Entries :
          /\ StrptimeOk(LastFeed.filingDate[i])
          /\ Strptime(LastFeed.filingDate[i])[1] = 2023
          /\ LinkOf(i) \in AllLinks
    /\ \E i \in Entries :
          /\ StrptimeOk(LastFeed.filingDate[i])
          /\ Strptime(LastFeed.filingDate[i])[1] = 2025
          /\ LinkOf(i) \in AllLinks

\* C10: no link is in one group more often than the feed has entries of
\* that accession number, whatever the requested codes are.
C10_OnceToEachGroup ==
    LastScanned
        => \A g \in 1..Len(link_tracker) :
              \A u \in Range(link_tracker[g].links) :
                  Cardinality({j \in 1..Len(link_tracker[g].links) :
                                  link_tracker[g].links[j] = u})
                     <= Cardinality({i \in Entries :
                                  i <= Len(LastFeed.accessionNumber)
                                  /\ LinkOf(i) = u})

====
